---- MODULE Spec2Model ----
(***************************************************************************)
(* A model of app.py: the sentence index of a paginated document, built    *)
(* by one task per page on a process pool, cached in a JSON file, and      *)
(* searched for keywords.  Text is a sequence of one-character strings.    *)
(***************************************************************************)
EXTENDS Integers, Sequences, FiniteSets, TLC

(***************************************************************************)
(* Bounds of the model.                                                    *)
(***************************************************************************)
\* Invocations of initialize_index / search_keywords_in_pdf in one run.
NumInvocations == 2
\* Pages of the largest document.
MaxPages == 3
\* Largest size of the process pool.
MaxWorkers == 2
\* Largest elapsed time of a search, in ticks of the clock.
MaxDuration == 1
\* Longest text handed to a function checked on its own.
MaxText == 2
\* Most entries of an index handed to a function checked on its own.
MaxEntries == 2
\* Most keywords of a keyword list handed to search_keywords_in_index.
MaxKeywords == 2

(***************************************************************************)
(* Characters.                                                             *)
(***************************************************************************)
UpperChars == {"A", "B"}
LowerChars == {"a", "b"}
\* \w of the regular expressions: letters, digits and the underscore.
IsWord(c) == c \in UpperChars \cup LowerChars \cup {"_"}
\* \s of the regular expressions.
IsSpace(c) == c \in {" ", "\n"}

\* str.lower(), character by character.
LowerChar(c) ==
    CASE c = "A" -> "a"
      [] c = "B" -> "b"
      [] OTHER -> c

\* The concatenation of a sequence of sequences.
RECURSIVE Flatten(_)
Flatten(ss) == IF ss = <<>> THEN <<>> ELSE Head(ss) \o Flatten(Tail(ss))

(***************************************************************************)
(* extract_sentences: re.split on the sentence boundary pattern            *)
(*   (?<!\w\.\w.)(?<![A-Z][a-z]\.)(?<=\.|\?)\s                             *)
(***************************************************************************)
\* Whether the pattern matches the one character text[i].
IsBoundary(text, i) ==
    /\ IsSpace(text[i])
    /\ i > 1
    /\ text[i-1] \in {".", "?"}
    /\ ~ ( /\ i > 3
           /\ text[i-3] \in UpperChars
           /\ text[i-2] \in LowerChars
           /\ text[i-1] = "." )
    /\ ~ ( /\ i > 4
           /\ IsWord(text[i-4])
           /\ text[i-3] = "."
           /\ IsWord(text[i-2])
           /\ text[i-1] # "\n" )

\* re.split: the pieces of text between the matches, from position `from`
\* on, with `piece` the piece read so far.
RECURSIVE SplitFrom(_, _, _)
SplitFrom(text, from, piece) ==
    IF from > Len(text) THEN <<piece>>
    ELSE IF IsBoundary(text, from)
         THEN <<piece>> \o SplitFrom(text, from + 1, <<>>)
         ELSE SplitFrom(text, from + 1, Append(piece, text[from]))

ReSplit(text) == SplitFrom(text, 1, <<>>)

Entry(pageNumber, sentence) == [pageNumber |-> pageNumber, sentence |-> sentence]

extract_sentences(page_num, text) ==
    LET sentences == ReSplit(text)
    IN  [k \in 1..Len(sentences) |-> Entry(page_num + 1, sentences[k])]

(***************************************************************************)
(* index.sort(key = page number): list.sort is stable.                     *)
(***************************************************************************)
\* An insertion that puts an entry before the entries of its own page.
RECURSIVE InsertByPageUnstable(_, _)
InsertByPageUnstable(sorted, e) ==
    IF sorted = <<>> THEN <<e>>
    ELSE LET last == sorted[Len(sorted)]
         IN  IF last.pageNumber < e.pageNumber
             THEN Append(sorted, e)
             ELSE Append(InsertByPageUnstable(SubSeq(sorted, 1, Len(sorted) - 1), e),
                         last)

RECURSIVE InsertByPage(_, _)
InsertByPage(sorted, e) ==
    IF sorted = <<>> THEN <<e>>
    ELSE LET last == sorted[Len(sorted)]
         IN  IF last.pageNumber <= e.pageNumber
             THEN Append(sorted, e)
             ELSE Append(InsertByPage(SubSeq(sorted, 1, Len(sorted) - 1), e), last)

RECURSIVE SortFrom(_, _)
SortFrom(index, sorted) ==
    IF index = <<>> THEN sorted
    ELSE SortFrom(Tail(index), InsertByPage(sorted, Head(index)))

SortByPage(index) == SortFrom(index, <<>>)

IsSorted(index) ==
    \A k \in 1..(Len(index) - 1) : index[k].pageNumber <= index[k+1].pageNumber

(***************************************************************************)
(* search_keywords_in_index                                                *)
(***************************************************************************)
\* Whether keyword k, lower-cased, is s[i..] 's prefix, s lower-cased.
MatchesAt(s, k, i) ==
    /\ i + Len(k) - 1 <= Len(s)
    /\ \A j \in 1..Len(k) : LowerChar(s[i + j - 1]) = LowerChar(k[j])

\* keyword in sentence: the membership test without the two lower().
ContainsCaseSensitive(s, k) ==
    \E i \in 1..(Len(s) + 1) :
        /\ i + Len(k) - 1 <= Len(s)
        /\ \A j \in 1..Len(k) : s[i + j - 1] = k[j]

\* keyword.lower() in sentence.lower()
Contains(s, k) == \E i \in 1..(Len(s) + 1) : MatchesAt(s, k, i)

BoldOpen == <<"<", "b", ">">>
BoldClose == <<"<", "/", "b", ">">>

\* A replacement that writes the keyword as given, <b>keyword</b>, in place
\* of the text matched.
RECURSIVE SubFromKeyword(_, _, _)
SubFromKeyword(s, k, i) ==
    IF i > Len(s)
    THEN IF k = <<>> THEN BoldOpen \o BoldClose ELSE <<>>
    ELSE IF MatchesAt(s, k, i)
         THEN IF k = <<>>
              THEN BoldOpen \o BoldClose \o <<s[i]>> \o SubFromKeyword(s, k, i + 1)
              ELSE BoldOpen \o k \o BoldClose \o SubFromKeyword(s, k, i + Len(k))
         ELSE <<s[i]>> \o SubFromKeyword(s, k, i + 1)

\* re.sub of the escaped keyword, ignoring case, by <b>\1</b>: the matches are
\* found left to right and do not overlap; the empty keyword matches before
\* every character and at the end.
RECURSIVE SubFrom(_, _, _)
SubFrom(s, k, i) ==
    IF i > Len(s)
    THEN IF k = <<>> THEN BoldOpen \o BoldClose ELSE <<>>
    ELSE IF MatchesAt(s, k, i)
         THEN IF k = <<>>
              THEN BoldOpen \o BoldClose \o <<s[i]>> \o SubFrom(s, k, i + 1)
              ELSE BoldOpen \o SubSeq(s, i, i + Len(k) - 1) \o BoldClose
                   \o SubFrom(s, k, i + Len(k))
         ELSE <<s[i]>> \o SubFrom(s, k, i + 1)

Bold(s, k) == SubFrom(s, k, 1)

Result(keyword, entry) ==
    [keyword |-> keyword, pageNumber |-> entry.pageNumber,
     sentence |-> Bold(entry.sentence, keyword)]

\* A keyword loop that leaves an entry at its first matching keyword.
RECURSIVE EntryResultsFirstMatch(_, _)
EntryResultsFirstMatch(entry, keywords) ==
    IF keywords = <<>> THEN <<>>
    ELSE IF Contains(entry.sentence, Head(keywords))
         THEN <<Result(Head(keywords), entry)>>
         ELSE EntryResultsFirstMatch(entry, Tail(keywords))

\* The results of one entry, keyword by keyword.
RECURSIVE EntryResults(_, _)
EntryResults(entry, keywords) ==
    IF keywords = <<>> THEN <<>>
    ELSE (IF Contains(entry.sentence, Head(keywords))
          THEN <<Result(Head(keywords), entry)>> ELSE <<>>)
         \o EntryResults(entry, Tail(keywords))

\* The results of one keyword, entry by entry.
RECURSIVE KeywordResults(_, _)
KeywordResults(index, keyword) ==
    IF index = <<>> THEN <<>>
    ELSE (IF Contains(Head(index).sentence, keyword)
          THEN <<Result(keyword, Head(index))>> ELSE <<>>)
         \o KeywordResults(Tail(index), keyword)

\* The two loops the other way round: for each keyword, for each entry.
RECURSIVE search_keyword_by_keyword(_, _)
search_keyword_by_keyword(index, keywords) ==
    IF keywords = <<>> THEN <<>>
    ELSE KeywordResults(index, Head(keywords))
         \o search_keyword_by_keyword(index, Tail(keywords))

RECURSIVE search_keywords_in_index(_, _)
search_keywords_in_index(index, keywords) ==
    IF index = <<>> THEN <<>>
    ELSE EntryResults(Head(index), keywords)
         \o search_keywords_in_index(Tail(index), keywords)

(***************************************************************************)
(* json.dump and json.load of an index.  The file is a sequence of tokens: *)
(* the brackets of the list and one object per entry, whose string is      *)
(* written escaped.                                                        *)
(***************************************************************************)
\* An encoding that leaves the backslash as it is.
RECURSIVE EscapeQuotesOnly(_)
EscapeQuotesOnly(s) ==
    IF s = <<>> THEN <<>>
    ELSE (CASE Head(s) = "\"" -> <<"\\", "\"">>
            [] Head(s) = "\n" -> <<"\\", "n">>
            [] OTHER -> <<Head(s)>>)
         \o EscapeQuotesOnly(Tail(s))

\* The JSON encoding of the characters of a string.
RECURSIVE EscapeString(_)
EscapeString(s) ==
    IF s = <<>> THEN <<>>
    ELSE (CASE Head(s) = "\"" -> <<"\\", "\"">>
            [] Head(s) = "\\" -> <<"\\", "\\">>
            [] Head(s) = "\n" -> <<"\\", "n">>
            [] OTHER -> <<Head(s)>>)
         \o EscapeString(Tail(s))

\* The string a JSON string body stands for.
RECURSIVE UnescapeString(_)
UnescapeString(s) ==
    IF s = <<>> THEN <<>>
    ELSE IF Head(s) = "\\" /\ Len(s) >= 2
         THEN <<(IF s[2] = "n" THEN "\n" ELSE s[2])>> \o UnescapeString(Tail(Tail(s)))
         ELSE <<Head(s)>> \o UnescapeString(Tail(s))

ListOpen == [t |-> "[", n |-> 0, s |-> <<>>]
ListClose == [t |-> "]", n |-> 0, s |-> <<>>]
ObjectToken(e) == [t |-> "{}", n |-> e.pageNumber, s |-> EscapeString(e.sentence)]

\* json.dump(index): the tokens written, in order.
JsonDump(index) ==
    <<ListOpen>> \o [k \in 1..Len(index) |-> ObjectToken(index[k])] \o <<ListClose>>

\* Whether json.load can decode the tokens: one whole list.
JsonValid(data) ==
    /\ Len(data) >= 2
    /\ data[1] = ListOpen
    /\ data[Len(data)] = ListClose
    /\ \A k \in 2..(Len(data) - 1) : data[k].t = "{}"

\* json.load of a valid file.
JsonLoad(data) ==
    [k \in 1..(Len(data) - 2) |-> Entry(data[k+1].n, UnescapeString(data[k+1].s))]


(***************************************************************************)
(* The program's state.                                                    *)
(***************************************************************************)
VARIABLES
    doc,        \* the document at PDF_FILE_PATH: its pages' texts
    max_workers,\* the size of a process pool: the machine's processor count
    cache,      \* the file at INDEX_FILE_PATH
    pc,         \* where each invocation is
    kind,       \* "ensure" (initialize_index) or "search" (search_keywords_in_pdf)
    pdf_file,   \* the invocation's document path
    keywords,   \* the keywords of a search
    index,      \* the invocation's local index
    futures,    \* the tasks of the invocation's build, in submission order
    faults,     \* what raised in the invocation's build, until it returns
    caught,     \* whether the build's except branch ran
    built,      \* whether the invocation called preprocess_pdf
    written,    \* how many tokens of its dump the invocation has written
    response,   \* what the search route answers
    call,       \* a function called on its own, with its arguments
    ret         \* what that call returned

sysVars == <<doc, max_workers, cache, pc, kind, pdf_file, keywords, index, futures,
             faults, caught, built, written, response>>
fnVars == <<call, ret>>
vars == <<doc, max_workers, cache, pc, kind, pdf_file, keywords, index, futures,
          faults, caught, built, written, response, call, ret>>

Procs == 1..NumInvocations

PDF_FILE_PATH == "Resources/physText.pdf"
MissingPath == "Resources/missing.pdf"
Paths == {PDF_FILE_PATH, MissingPath}

\* os.path.isfile of a document path.
IsFile(path) == path = PDF_FILE_PATH

\* The text of page p (from 1) of the sample documents.
PageText(p) ==
    CASE p % 3 = 1 -> <<"a", ".", " ", "B">>
      [] p % 3 = 2 -> <<"b">>
      [] OTHER -> <<>>

\* The documents: the first n pages, for every n up to MaxPages.
Documents == {[p \in 1..n |-> PageText(p)] : n \in 0..MaxPages}

KeywordLists == {<<>>, <<<<"b">>>>}

NoFile == [exists |-> FALSE, data |-> <<>>, good |-> FALSE]
NoResponse == [results |-> <<>>, duration |-> -1, num_results |-> -1]
NoCall == [fn |-> "none", index |-> <<>>, keywords |-> <<>>, text |-> <<>>]
NoRet == [done |-> FALSE, error |-> FALSE, value |-> <<>>]

\* What a build of the document returns when nothing raises.
WholeIndex(d) ==
    SortByPage(Flatten([p \in 1..Len(d) |-> extract_sentences(p - 1, d[p])]))

\* The cache file an earlier run of the program has left.
OldFile(d) == [exists |-> TRUE, data |-> JsonDump(WholeIndex(d)), good |-> TRUE]

Idle ==
    /\ pc = [i \in Procs |-> "idle"]
    /\ kind = [i \in Procs |-> "none"]
    /\ pdf_file = [i \in Procs |-> PDF_FILE_PATH]
    /\ keywords = [i \in Procs |-> <<>>]
    /\ index = [i \in Procs |-> <<>>]
    /\ futures = [i \in Procs |-> <<>>]
    /\ faults = [i \in Procs |-> {}]
    /\ caught = [i \in Procs |-> FALSE]
    /\ built = [i \in Procs |-> FALSE]
    /\ written = [i \in Procs |-> 0]
    /\ response = [i \in Procs |-> NoResponse]

\* The program starts with some document, some pool size, and no cache file
\* or the one an earlier run has left.
Init ==
    /\ doc \in Documents
    /\ max_workers \in 1..MaxWorkers
    /\ cache \in {NoFile, OldFile(doc)}
    /\ Idle
    /\ call = NoCall
    /\ ret = NoRet

(***************************************************************************)
(* initialize_index and search_keywords_in_pdf, up to the cache check.     *)
(***************************************************************************)
\* initialize_index(pdf_file, index_file) is called.
StartEnsure(i) ==
    /\ pc[i] = "idle"
    /\ \E path \in Paths : pdf_file' = [pdf_file EXCEPT ![i] = path]
    /\ kind' = [kind EXCEPT ![i] = "ensure"]
    /\ pc' = [pc EXCEPT ![i] = "isfile"]
    /\ UNCHANGED <<doc, max_workers, cache, keywords, index, futures, faults, caught,
                   built, written, response, fnVars>>

\* The route's answer to found_data, duration.
Response(found_data, duration) ==
    [results |-> found_data, duration |-> duration, num_results |-> Len(found_data)]

\* search_keywords_in_pdf(pdf_file, keywords) is called: a missing document
\* returns [], 0.0 at once.
StartSearch(i) ==
    /\ pc[i] = "idle"
    /\ \E path \in Paths :
         /\ pdf_file' = [pdf_file EXCEPT ![i] = path]
         /\ IF IsFile(path)
            THEN /\ pc' = [pc EXCEPT ![i] = "isfile"]
                 /\ UNCHANGED response
            ELSE /\ pc' = [pc EXCEPT ![i] = "done"]
                 /\ response' = [response EXCEPT ![i] = Response(<<>>, 0)]
    /\ kind' = [kind EXCEPT ![i] = "search"]
    /\ UNCHANGED <<doc, max_workers, cache, keywords, index, futures, faults, caught,
                   built, written, fnVars>>

\* What the invocation does when the cache file is there.
CacheFound(i) == IF kind[i] = "search" THEN "load" ELSE "done"

\* A check that finds no cache file, whether it is there or not.
CheckCacheAlwaysBuilds(i) ==
    /\ pc[i] = "isfile"
    /\ pc' = [pc EXCEPT ![i] = "open_pdf"]
    /\ built' = [built EXCEPT ![i] = TRUE]
    /\ UNCHANGED <<doc, max_workers, cache, kind, pdf_file, keywords, index, futures,
                   faults, caught, written, response, fnVars>>

\* A check that also calls preprocess_pdf when the cache file does not hold
\* the index of the document as it is now.
CheckCacheFresh(i) ==
    /\ pc[i] = "isfile"
    /\ IF cache.exists /\ cache.data = JsonDump(WholeIndex(doc))
       THEN /\ pc' = [pc EXCEPT ![i] = CacheFound(i)]
            /\ UNCHANGED built
       ELSE /\ pc' = [pc EXCEPT ![i] = "open_pdf"]
            /\ built' = [built EXCEPT ![i] = TRUE]
    /\ UNCHANGED <<doc, max_workers, cache, kind, pdf_file, keywords, index, futures,
                   faults, caught, written, response, fnVars>>

\* os.path.isfile of the cache path: load or skip when the file is there,
\* call preprocess_pdf when it is not.
CheckCache(i) ==
    /\ pc[i] = "isfile"
    /\ IF cache.exists
       THEN /\ pc' = [pc EXCEPT ![i] = CacheFound(i)]
            /\ UNCHANGED built
       ELSE /\ pc' = [pc EXCEPT ![i] = "open_pdf"]
            /\ built' = [built EXCEPT ![i] = TRUE]
    /\ UNCHANGED <<doc, max_workers, cache, kind, pdf_file, keywords, index, futures,
                   faults, caught, written, response, fnVars>>

\* load_index_from_file: json.load raises on a file that is not one whole list.
Load(i) ==
    /\ pc[i] = "load"
    /\ IF JsonValid(cache.data)
       THEN /\ index' = [index EXCEPT ![i] = JsonLoad(cache.data)]
            /\ pc' = [pc EXCEPT ![i] = "match"]
       ELSE /\ pc' = [pc EXCEPT ![i] = "load_error"]
            /\ UNCHANGED index
    /\ UNCHANGED <<doc, max_workers, cache, kind, pdf_file, keywords, futures, faults,
                   caught, built, written, response, fnVars>>

(***************************************************************************)
(* preprocess_pdf                                                          *)
(***************************************************************************)
\* index = [], fitz.open(pdf_file) and ProcessPoolExecutor(): a missing
\* document raises, and the except branch returns the index as it is.
OpenPdf(i) ==
    /\ pc[i] = "open_pdf"
    /\ index' = [index EXCEPT ![i] = <<>>]
    /\ IF IsFile(pdf_file[i])
       THEN /\ pc' = [pc EXCEPT ![i] = "submit"]
            /\ UNCHANGED caught
       ELSE /\ caught' = [caught EXCEPT ![i] = TRUE]
            /\ pc' = [pc EXCEPT ![i] = "save"]
    /\ UNCHANGED <<doc, max_workers, cache, kind, pdf_file, keywords, futures, faults,
                   built, written, response, fnVars>>

Fault(at, page) == [at |-> at, page |-> page]

\* One turn of the submission loop: the page's text is read and its task
\* submitted, or reading the text raises.  After the last page the results
\* are collected.
Submit(i) ==
    /\ pc[i] = "submit"
    /\ IF Len(futures[i]) = Len(doc)
       THEN /\ pc' = [pc EXCEPT ![i] = "collect"]
            /\ UNCHANGED <<futures, faults>>
       ELSE \/ /\ futures' = [futures EXCEPT ![i] = Append(@, "pending")]
               /\ UNCHANGED <<pc, faults>>
            \/ /\ pc' = [pc EXCEPT ![i] = "shutdown"]
               /\ faults' = [faults EXCEPT ![i] = {Fault("read", Len(futures[i]) + 1)}]
               /\ UNCHANGED futures
    /\ UNCHANGED <<doc, max_workers, cache, kind, pdf_file, keywords, index, caught,
                   built, written, response, fnVars>>

\* The tasks the pool is running: the first max_workers unfinished ones, in
\* submission order.
Running(i, p) ==
    /\ p \in 1..Len(futures[i])
    /\ futures[i][p] = "pending"
    /\ Cardinality({q \in 1..(p - 1) : futures[i][q] = "pending"}) < max_workers

\* A worker finishes the task of page p: extract_sentences returns or raises.
TaskFinish(i, p) ==
    /\ pc[i] \in {"submit", "collect", "shutdown"}
    /\ Running(i, p)
    /\ \E outcome \in {"ok", "raised"} :
         futures' = [futures EXCEPT ![i][p] = outcome]
    /\ UNCHANGED <<doc, max_workers, cache, pc, kind, pdf_file, keywords, index,
                   faults, caught, built, written, response, fnVars>>

\* One turn of the as_completed loop: a finished task's result extends the
\* index, or future.result() raises the task's error.
Collect(i, p) ==
    /\ pc[i] = "collect"
    /\ p \in 1..Len(futures[i])
    /\ \/ /\ futures[i][p] = "ok"
          /\ index' = [index EXCEPT ![i] = @ \o extract_sentences(p - 1, doc[p])]
          /\ futures' = [futures EXCEPT ![i][p] = "collected"]
          /\ UNCHANGED pc
       \/ /\ futures[i][p] = "raised"
          /\ pc' = [pc EXCEPT ![i] = "shutdown"]
          /\ UNCHANGED <<index, futures>>
    /\ UNCHANGED <<doc, max_workers, cache, kind, pdf_file, keywords, faults, caught,
                   built, written, response, fnVars>>

\* A sort that does not wait for the loop to be over.
SortWithoutWaiting(i) ==
    /\ pc[i] = "collect"
    /\ index' = [index EXCEPT ![i] = SortByPage(@)]
    /\ futures' = [futures EXCEPT ![i] = <<>>]
    /\ pc' = [pc EXCEPT ![i] = "save"]
    /\ UNCHANGED <<doc, max_workers, cache, kind, pdf_file, keywords, faults, caught,
                   built, written, response, fnVars>>

\* The loop is over and the pool shut down: index.sort, and the index is
\* returned.
Sort(i) ==
    /\ pc[i] = "collect"
    /\ \A p \in 1..Len(futures[i]) : futures[i][p] = "collected"
    /\ index' = [index EXCEPT ![i] = SortByPage(@)]
    /\ futures' = [futures EXCEPT ![i] = <<>>]
    /\ pc' = [pc EXCEPT ![i] = "save"]
    /\ UNCHANGED <<doc, max_workers, cache, kind, pdf_file, keywords, faults, caught,
                   built, written, response, fnVars>>

RaisedTasks(i) == {p \in 1..Len(futures[i]) : futures[i][p] = "raised"}

\* An except branch after which the invocation does not save the index.
ExceptSkipsSave(i) ==
    /\ pc[i] = "shutdown"
    /\ \A p \in 1..Len(futures[i]) : futures[i][p] # "pending"
    /\ caught' = [caught EXCEPT ![i] = TRUE]
    /\ faults' = [faults EXCEPT ![i] =
                    @ \cup {Fault("task", p) : p \in RaisedTasks(i)}]
    /\ futures' = [futures EXCEPT ![i] = <<>>]
    /\ pc' = [pc EXCEPT ![i] = IF kind[i] = "search" THEN "match" ELSE "done"]
    /\ UNCHANGED <<doc, max_workers, cache, kind, pdf_file, keywords, index, built,
                   written, response, fnVars>>

\* An error left the with block: the pool waits for its tasks, the except
\* branch prints the error, and the index is returned as it is.
Except(i) ==
    /\ pc[i] = "shutdown"
    /\ \A p \in 1..Len(futures[i]) : futures[i][p] # "pending"
    /\ caught' = [caught EXCEPT ![i] = TRUE]
    /\ faults' = [faults EXCEPT ![i] =
                    @ \cup {Fault("task", p) : p \in RaisedTasks(i)}]
    /\ futures' = [futures EXCEPT ![i] = <<>>]
    /\ pc' = [pc EXCEPT ![i] = "save"]
    /\ UNCHANGED <<doc, max_workers, cache, kind, pdf_file, keywords, index, built,
                   written, response, fnVars>>

(***************************************************************************)
(* save_index_to_file                                                      *)
(***************************************************************************)
\* The tokens the file object buffers before it writes them to the file.
BufferTokens == 2

\* A hole of the file: what a write beyond its end leaves behind.
Nul == [t |-> "nul", n |-> 0, s |-> <<>>]

\* The file after tokens are written at offset off.
WriteAt(data, off, tokens) ==
    LET end == off + Len(tokens)
        len == IF Len(data) > end THEN Len(data) ELSE end
    IN  [k \in 1..len |->
            IF k > off /\ k <= end THEN tokens[k - off]
            ELSE IF k <= Len(data) THEN data[k] ELSE Nul]

\* open(filename, 'w'): the file is there and empty.
SaveOpen(i) ==
    /\ pc[i] = "save"
    /\ cache' = [exists |-> TRUE, data |-> <<>>, good |-> FALSE]
    /\ written' = [written EXCEPT ![i] = 0]
    /\ pc' = [pc EXCEPT ![i] = "dump"]
    /\ UNCHANGED <<doc, max_workers, kind, pdf_file, keywords, index, futures, faults,
                   caught, built, response, fnVars>>

\* Where the invocation goes once its index is saved.
AfterSave(i) == IF kind[i] = "search" THEN "match" ELSE "done"

\* json.dump and the end of the with block: a full buffer is written at the
\* writer's own offset, and close writes what is left.
SaveWrite(i) ==
    /\ pc[i] = "dump"
    /\ LET tokens == JsonDump(index[i])
           left == Len(tokens) - written[i]
           k == IF left > BufferTokens THEN BufferTokens ELSE left
           data == WriteAt(cache.data, written[i],
                           SubSeq(tokens, written[i] + 1, written[i] + k))
           closed == k = left
       IN  /\ cache' = [exists |-> TRUE, data |-> data,
                        good |-> closed /\ ~caught[i] /\ data = tokens]
           /\ written' = [written EXCEPT ![i] = IF closed THEN 0 ELSE @ + k]
           /\ pc' = [pc EXCEPT ![i] = IF closed THEN AfterSave(i) ELSE "dump"]
           /\ index' = [index EXCEPT ![i] =
                          IF closed /\ kind[i] = "ensure" THEN <<>> ELSE @]
           /\ faults' = [faults EXCEPT ![i] =
                           IF closed /\ kind[i] = "ensure" THEN {} ELSE @]
    /\ UNCHANGED <<doc, max_workers, kind, pdf_file, keywords, futures, caught, built,
                   response, fnVars>>

(***************************************************************************)
(* The search itself and the route's response.                             *)
(***************************************************************************)
Durations == 0..MaxDuration

\* search_keywords_in_index over the index, the keywords read here for the
\* first time, and the elapsed time.
Match(i) ==
    /\ pc[i] = "match"
    /\ \E kws \in KeywordLists, duration \in Durations :
         /\ keywords' = [keywords EXCEPT ![i] = kws]
         /\ response' = [response EXCEPT ![i] =
                Response(search_keywords_in_index(index[i], kws), duration)]
    /\ index' = [index EXCEPT ![i] = <<>>]
    /\ faults' = [faults EXCEPT ![i] = {}]
    /\ pc' = [pc EXCEPT ![i] = "done"]
    /\ UNCHANGED <<doc, max_workers, cache, kind, pdf_file, futures, caught, built,
                   written, fnVars>>

(***************************************************************************)
(* The run: invocations interleave freely.                                 *)
(***************************************************************************)
Step(i) ==
    \/ StartEnsure(i)
    \/ StartSearch(i)
    \/ CheckCache(i)
    \/ Load(i)
    \/ OpenPdf(i)
    \/ Submit(i)
    \/ \E p \in 1..MaxPages : TaskFinish(i, p)
    \/ \E p \in 1..MaxPages : Collect(i, p)
    \/ Sort(i)
    \/ Except(i)
    \/ SaveOpen(i)
    \/ SaveWrite(i)
    \/ Match(i)

Next == \E i \in Procs : Step(i)

Spec == Init /\ [][Next]_vars

(***************************************************************************)
(* The run with one invocation at a time, as at start-up, where            *)
(* initialize_index runs before the server takes requests.                 *)
(***************************************************************************)
Finished(j) == pc[j] \in {"idle", "done", "load_error"}

\* No other invocation is under way.
Alone(i) == \A j \in Procs \ {i} : Finished(j)

NextSeq ==
    \E i \in Procs :
        \/ Alone(i) /\ StartEnsure(i)
        \/ Alone(i) /\ StartSearch(i)
        \/ CheckCache(i)
        \/ Load(i)
        \/ OpenPdf(i)
        \/ Submit(i)
        \/ \E p \in 1..MaxPages : TaskFinish(i, p)
        \/ \E p \in 1..MaxPages : Collect(i, p)
        \/ Sort(i)
        \/ Except(i)
        \/ SaveOpen(i)
        \/ SaveWrite(i)
        \/ Match(i)

SpecSeq == Init /\ [][NextSeq]_vars

(***************************************************************************)
(* The run in which the document at PDF_FILE_PATH is replaced from outside, *)
(* while no build is reading it, by an edition with more pages.            *)
(***************************************************************************)
Building(i) == pc[i] \in {"open_pdf", "submit", "collect", "shutdown"}

ChangeDocument ==
    /\ \A i \in Procs : ~Building(i)
    /\ \E d \in Documents : Len(d) > Len(doc) /\ doc' = d
    /\ UNCHANGED <<max_workers, cache, pc, kind, pdf_file, keywords, index, futures,
                   faults, caught, built, written, response, fnVars>>

NextStale ==
    \/ \E i \in Procs : Step(i)
    \/ ChangeDocument

SpecStale == Init /\ [][NextStale]_vars

(***************************************************************************)
(* Functions called on their own, on arguments drawn from bounded sets.    *)
(***************************************************************************)
\* The texts of at most MaxText characters over chars.
Texts(chars) == UNION {[1..n -> chars] : n \in 0..MaxText}

FnPages == 1..2

\* The page numbers of an index of n entries: they do not decrease.
PageRuns(n) ==
    {pg \in [1..n -> FnPages] : \A k \in 1..(n - 1) : pg[k] <= pg[k+1]}

\* The index with page numbers pg and sentences st.
IndexOf(pg, st) == [k \in DOMAIN pg |-> Entry(pg[k], st[k])]

\* Everything but the cache file and the call is as at the start.
FnIdle ==
    /\ doc = <<>>
    /\ max_workers = 1
    /\ cache = NoFile
    /\ Idle

\* save_index_to_file and load_index_from_file on one path, with nothing
\* else running, for the indexes of at most MaxEntries entries.
JsonChars == {"n", "\\", "\""}

SaveCall(ix) == [fn |-> "save", index |-> ix, keywords |-> <<>>, text |-> <<>>]

InitCache ==
    /\ FnIdle
    /\ \E n \in 0..MaxEntries :
          \E pg \in PageRuns(n), st \in [1..n -> Texts(JsonChars)] :
              call = SaveCall(IndexOf(pg, st))
    /\ ret = NoRet

CallSave ==
    /\ call.fn = "save"
    /\ ~cache.exists
    /\ cache' = [exists |-> TRUE, data |-> JsonDump(call.index), good |-> FALSE]
    /\ UNCHANGED <<doc, max_workers, pc, kind, pdf_file, keywords, index, futures,
                   faults, caught, built, written, response, call, ret>>

CallLoad ==
    /\ call.fn = "save"
    /\ cache.exists
    /\ ~ret.done
    /\ ret' = IF JsonValid(cache.data)
              THEN [done |-> TRUE, error |-> FALSE, value |-> JsonLoad(cache.data)]
              ELSE [done |-> TRUE, error |-> TRUE, value |-> <<>>]
    /\ UNCHANGED <<sysVars, call>>

NextCache == CallSave \/ CallLoad

SpecCache == InitCache /\ [][NextCache]_vars

\* search_keywords_in_index on its own, for the indexes of at most MaxEntries
\* entries and the lists of at most MaxKeywords keywords.
SearchChars == {"a", "A", "b"}

SearchCall(ix, kws) ==
    [fn |-> "search", index |-> ix, keywords |-> kws, text |-> <<>>]

InitSearch ==
    /\ FnIdle
    /\ \E n \in 0..MaxEntries, m \in 0..MaxKeywords :
          \E pg \in PageRuns(n), st \in [1..n -> Texts(SearchChars)],
             kws \in [1..m -> Texts(SearchChars)] :
              call = SearchCall(IndexOf(pg, st), kws)
    /\ ret = NoRet

CallSearch ==
    /\ call.fn = "search"
    /\ ~ret.done
    /\ ret' = [done |-> TRUE, error |-> FALSE,
               value |-> search_keywords_in_index(call.index, call.keywords)]
    /\ UNCHANGED <<sysVars, call>>

NextSearch == CallSearch

SpecSearch == InitSearch /\ [][NextSearch]_vars

(***************************************************************************)
(* The properties.                                                         *)
(***************************************************************************)
\* The invocation holds in index what its call of preprocess_pdf returned.
Returned(i) == built[i] /\ pc[i] \in {"save", "dump", "match"}

\* The invocation writes the cache file in this step.
Writes(i) ==
    \/ pc[i] = "save" /\ pc'[i] = "dump"
    \/ pc[i] = "dump" /\ (written'[i] # written[i] \/ pc'[i] # "dump")

\* C1: two builds of the same document in which the same reads and tasks
\* raised return the same index, entry for entry, whatever the order in which
\* their tasks completed and whatever the pool size.
Determinism ==
    \A i, j \in Procs :
        (Returned(i) /\ Returned(j) /\ pdf_file[i] = pdf_file[j]
            /\ faults[i] = faults[j])
        => index[i] = index[j]

\* C2: once the cache file holds, whole, the index of a build that did not
\* fail, no invocation whose build failed writes the cache file (stated for
\* the builds of the document at PDF_FILE_PATH and a cache file with entries).
FailedBuildNeverOverwrites ==
    [][(cache.good /\ Len(cache.data) > 2)
        => \A i \in Procs :
              (caught[i] /\ pdf_file[i] = PDF_FILE_PATH) => ~Writes(i)]_vars

\* C3: no load_index_from_file reads a cache file that a save has left
\* partially written.
LoadNeverSeesPartialFile == \A i \in Procs : pc[i] # "load_error"

\* C4: preprocess_pdf is called at most once for the document at
\* PDF_FILE_PATH.
BuildAtMostOnce ==
    Cardinality({i \in Procs : built[i] /\ pdf_file[i] = PDF_FILE_PATH}) <= 1

\* C5: with one invocation at a time, once initialize_index has run, a further
\* run of initialize_index calls no preprocess_pdf and leaves the cache file
\* as it is.
EnsureIdempotent ==
    [][\A i \in Procs :
          ( /\ kind[i] = "ensure"
            /\ ~Finished(i)
            /\ \E j \in Procs \ {i} : kind[j] = "ensure" /\ pc[j] = "done" )
          => (cache' = cache /\ ~built'[i] /\ pc'[i] = "done")]_vars

\* C5, witnessed: initialize_index has run twice, the first run built and
\* saved the index and the second found the cache file.
EnsureTwice ==
    \E i, j \in Procs :
        /\ kind[i] = "ensure" /\ pc[i] = "done" /\ built[i]
        /\ kind[j] = "ensure" /\ pc[j] = "done" /\ ~built[j]
        /\ cache.exists

\* C6: the index preprocess_pdf returns, and the index in the cache file, have
\* page numbers that do not decrease.
OrderInvariant ==
    /\ \A i \in Procs : Returned(i) => IsSorted(index[i])
    /\ JsonValid(cache.data) => IsSorted(JsonLoad(cache.data))

\* C7: a build in which a read or a task raised returns the empty index.
FailedBuildReturnsEmpty ==
    \A i \in Procs : (Returned(i) /\ caught[i]) => index[i] = <<>>

\* C8: the response to a search of a missing document differs from the
\* response to a search that found no match.
MissingDocumentDistinguished ==
    \A i, j \in Procs :
        ( /\ kind[i] = "search" /\ pc[i] = "done" /\ ~IsFile(pdf_file[i])
          /\ kind[j] = "search" /\ pc[j] = "done" /\ IsFile(pdf_file[j]) )
        => response[i] # response[j]

\* C9: search_keywords_in_index returns no result for the empty keyword.
EmptyKeywordMatchesNothing ==
    (call.fn = "search" /\ ret.done)
    => \A k \in 1..Len(ret.value) : ret.value[k].keyword # <<>>

\* C10: load_index_from_file after save_index_to_file returns the index saved.
RoundTrip ==
    (call.fn = "save" /\ ret.done) => (~ret.error /\ ret.value = call.index)

\* C10, witnessed: an index of two entries, a quote or a backslash in a
\* sentence, was saved and loaded.
RoundTripDone ==
    /\ call.fn = "save"
    /\ ret.done
    /\ Len(call.index) = 2
    /\ \E k \in 1..2 : \E c \in 1..Len(call.index[k].sentence) :
          call.index[k].sentence[c] \in {"\\", "\""}

\* The elements of a sequence.
Range(seq) == {seq[k] : k \in 1..Len(seq)}

\* The search called on its own has returned.
SearchReturned == call.fn = "search" /\ ret.done

\* The pairs (k, e) of a keyword of the list and an entry of the index, the
\* keyword occurring in the entry's sentence whatever the case.
MatchingPairs(index_, keywords_) ==
    {pair \in Range(keywords_) \X Range(index_) : Contains(pair[2].sentence, pair[1])}

\* The positions (j, i) of an entry and a keyword that occurs in its sentence.
MatchingPositions(index_, keywords_) ==
    {pos \in (1..Len(index_)) \X (1..Len(keywords_)) :
        Contains(index_[pos[1]].sentence, keywords_[pos[2]])}

\* C11, as stated: the number of results is the size of the set of pairs
\* (k, e), k a keyword of the list, e an entry of the index, k occurring in
\* e's sentence whatever the case (stated for the indexes whose entries all
\* differ and the lists without the empty keyword).
CartesianCountOfSet ==
    ( /\ SearchReturned
      /\ Cardinality(Range(call.index)) = Len(call.index)
      /\ <<>> \notin Range(call.keywords) )
    => Len(ret.value) = Cardinality(MatchingPairs(call.index, call.keywords))

\* C11, amended: the number of results is the number of pairs of a position
\* in the index and a position in the keyword list, the keyword there
\* occurring in the sentence there whatever the case; a keyword given twice and
\* an entry present twice count twice.
CartesianCount ==
    SearchReturned
    => Len(ret.value) = Cardinality(MatchingPositions(call.index, call.keywords))

\* C11, witnessed: of the four pairs of two keywords, neither empty, and two
\* entries, three matched.
CartesianCounted ==
    /\ SearchReturned
    /\ Len(call.keywords) = 2
    /\ Len(call.index) = 2
    /\ <<>> \notin Range(call.keywords)
    /\ Len(ret.value) = 3

\* C12: the task of a page whose text is empty produces no entry, so a built
\* index holds no entry with the empty sentence for a page whose text is empty.
EmptyPageYieldsNoEntry ==
    \A i \in Procs :
        built[i] =>
            \A k \in 1..Len(index[i]) :
                index[i][k].sentence = <<>> => doc[index[i][k].pageNumber] # <<>>

\* Whether t is s[i..] 's prefix.
StartsWith(s, i, t) ==
    /\ i + Len(t) - 1 <= Len(s)
    /\ \A j \in 1..Len(t) : s[i + j - 1] = t[j]

\* The text without the markers <b> and </b>, read from position i on.
RECURSIVE StripFrom(_, _)
StripFrom(s, i) ==
    IF i > Len(s) THEN <<>>
    ELSE IF StartsWith(s, i, BoldOpen) THEN StripFrom(s, i + Len(BoldOpen))
    ELSE IF StartsWith(s, i, BoldClose) THEN StripFrom(s, i + Len(BoldClose))
    ELSE <<s[i]>> \o StripFrom(s, i + 1)

StripBold(s) == StripFrom(s, 1)

\* The loops of search_keywords_in_index visit position p before position q:
\* the entries in index order and, for one entry, the keywords in list order.
Before(p, q) == p[1] < q[1] \/ (p[1] = q[1] /\ p[2] < q[2])

\* The r-th of the matching positions in the order of the loops.
NthMatch(index_, keywords_, r) ==
    LET matches == MatchingPositions(index_, keywords_)
    IN  CHOOSE pos \in matches :
            Cardinality({q \in matches : Before(q, pos)}) = r - 1

\* C13: the sentence of every result, without the markers <b> and </b>, is the
\* sentence of the index entry it was made from, character for character (for
\* sentences that hold no marker of their own).
HighlightPreservation ==
    SearchReturned
    => \A r \in 1..Len(ret.value) :
          LET pos == NthMatch(call.index, call.keywords, r)
          IN  StripBold(ret.value[r].sentence) = call.index[pos[1]].sentence

\* C13, witnessed: the keyword "a" was highlighted in a sentence that has it
\* in upper case.
HighlightedOtherCase ==
    /\ SearchReturned
    /\ call.keywords = << <<"a">> >>
    /\ Len(call.index) = 1
    /\ call.index[1].sentence = <<"A", "b">>
    /\ Len(ret.value) = 1
    /\ ret.value[1].sentence = BoldOpen \o <<"A">> \o BoldClose \o <<"b">>

\* str.lower() of a text.
Lower(s) == [j \in 1..Len(s) |-> LowerChar(s[j])]

\* The keyword lists that differ from keywords_ in the case of letters only.
CaseVariants(keywords_) ==
    {other \in [1..Len(keywords_) -> Texts(SearchChars)] :
        \A k \in 1..Len(keywords_) : Lower(other[k]) = Lower(keywords_[k])}

\* The results without their keyword fields.
WithoutKeyword(results) ==
    [r \in 1..Len(results) |->
        [pageNumber |-> results[r].pageNumber, sentence |-> results[r].sentence]]

\* C14: over one index, the searches for two keyword lists that differ in the
\* case of letters only return the same results in the same order, the keyword
\* fields apart.
CaseInsensitivity ==
    SearchReturned
    => \A other \in CaseVariants(call.keywords) :
          WithoutKeyword(search_keywords_in_index(call.index, other))
              = WithoutKeyword(ret.value)

\* C14, witnessed: the keyword "A" found the sentence "ab", as the keyword "a"
\* does.
UpperCaseKeywordFound ==
    /\ SearchReturned
    /\ call.keywords = << <<"A">> >>
    /\ Len(call.index) = 2
    /\ call.index[1].sentence = <<"a", "b">>
    /\ Len(ret.value) >= 1
    /\ ret.value[1].sentence = BoldOpen \o <<"a">> \o BoldClose \o <<"b">>

\* The invocation's build sorts its index in this step.
Sorts(i) == pc[i] = "collect" /\ pc'[i] = "save"

\* The invocation's build has sorted its index.
Sorted(i) == built[i] /\ ~caught[i] /\ pc[i] \in {"save", "dump", "match"}

\* C15: a build sorts its index only when one task per page was submitted and
\* the result of every one of them has been collected, and once the index is
\* sorted no result is added to it.
MergeBarrier ==
    [][\A i \in Procs :
          /\ Sorts(i) => /\ Len(futures[i]) = Len(doc)
                         /\ \A p \in 1..Len(futures[i]) : futures[i][p] = "collected"
          /\ Sorted(i) => (index'[i] = index[i] \/ index'[i] = <<>>)]_vars

\* C15, witnessed: the build of a document of three pages has sorted the
\* entries of all its tasks, and is saving them.
MergedAfterAllTasks ==
    \E i \in Procs :
        /\ Sorted(i)
        /\ pc[i] = "dump"
        /\ Len(doc) = 3
        /\ Len(index[i]) = 4

\* The entries of page p (from 1) of document d: one for each piece of its
\* text, in the order of the pieces, with the page's number.
PageEntries(d, p) ==
    LET sentences == ReSplit(d[p])
    IN  [k \in 1..Len(sentences) |-> Entry(p, sentences[k])]

\* C16: a build in which nothing raised has submitted one task for each page,
\* and returns the entries of page 1, then those of page 2, and so on, each
\* page's entries once, in the order its task produced them.
BuildCompleteness ==
    \A i \in Procs :
        /\ pc[i] = "collect" => Len(futures[i]) = Len(doc)
        /\ Sorted(i) =>
              index[i] = Flatten([p \in 1..Len(doc) |-> PageEntries(doc, p)])

\* C16, witnessed: a search has built the index of a document of three pages,
\* the two sentences of page 1 first, and is about to look for its keywords.
WholeIndexBuilt ==
    \E i \in Procs :
        /\ Sorted(i)
        /\ pc[i] = "match"
        /\ Len(doc) = 3
        /\ Len(index[i]) = 4
        /\ index[i][1] = Entry(1, <<"a", ".">>)
        /\ index[i][2] = Entry(1, <<"B">>)

\* The invocation takes a step.
Steps(i) == pc'[i] # pc[i]

\* C17: once the cache file exists, whether or not a write to it is under
\* way, an invocation that has not called preprocess_pdf never calls it and
\* leaves the cache file as it is at each of its steps, whatever the document
\* has become; and the cache file stays.
CacheNeverInvalidated ==
    [][cache.exists =>
          /\ cache'.exists
          /\ \A i \in Procs :
                ~built[i] => /\ ~built'[i]
                             /\ Steps(i) => cache' = cache]_vars

\* C17, witnessed: a search was answered from the cache file, which holds
\* entries and is not the index of the document as it is now.
StaleCacheSearched ==
    \E i \in Procs :
        /\ kind[i] = "search"
        /\ pc[i] = "done"
        /\ ~built[i]
        /\ response[i].num_results > 0
        /\ cache.good
        /\ cache.data # JsonDump(WholeIndex(doc))

\* C18: the results follow the entries of the index and, for one entry, the
\* keywords of the list: the r-th result is the result of the r-th pair of an
\* entry and a keyword that matches it, the pairs taken entry by entry and, for
\* one entry, keyword by keyword; an entry that two keywords match gives two
\* results, one after the other.
ResultOrdering ==
    SearchReturned
    => /\ Len(ret.value) = Cardinality(MatchingPositions(call.index, call.keywords))
       /\ \A r \in 1..Len(ret.value) :
             LET pos == NthMatch(call.index, call.keywords, r)
             IN  ret.value[r] = Result(call.keywords[pos[2]], call.index[pos[1]])

\* C18, witnessed: two entries, each matched by the keywords "b" and "a", gave
\* four results: those of the first entry, "b" before "a", then those of the
\* second.
TwoKeywordsTwoEntries ==
    /\ SearchReturned
    /\ call.keywords = << <<"b">>, <<"a">> >>
    /\ Len(call.index) = 2
    /\ call.index[1] = Entry(1, <<"a", "b">>)
    /\ call.index[2] = Entry(2, <<"b", "A">>)
    /\ Len(ret.value) = 4
    /\ ret.value[1].keyword = <<"b">> /\ ret.value[1].pageNumber = 1
    /\ ret.value[2].keyword = <<"a">> /\ ret.value[2].pageNumber = 1
    /\ ret.value[3].keyword = <<"b">> /\ ret.value[3].pageNumber = 2

\* The invocation's build failed and the invocation has returned.
FailedAndReturned(j) == built[j] /\ caught[j] /\ pc[j] = "done"

\* A search of the document at PDF_FILE_PATH is under way.
Searching(i) ==
    /\ kind[i] = "search"
    /\ IsFile(pdf_file[i])
    /\ pc[i] \in {"isfile", "load", "match"}

\* C19: with one invocation at a time, an invocation whose build failed saves
\* the index preprocess_pdf returned, so the cache file is there when it
\* returns; a search after it calls no preprocess_pdf, leaves the cache file
\* as it is, loads that index and answers from it.
FailedBuildPersists ==
    [][\A i \in Procs :
          /\ (built[i] /\ caught[i] /\ pc[i] = "dump" /\ pc'[i] # "dump")
             => (cache'.exists /\ cache'.data = JsonDump(index[i]))
          /\ FailedAndReturned(i) => cache.exists
          /\ \A j \in Procs \ {i} :
                (FailedAndReturned(j) /\ Searching(i))
                => /\ ~built[i] /\ ~built'[i]
                   /\ cache' = cache
                   /\ pc'[i] # "load_error"
                   /\ pc[i] = "match" => index[i] = JsonLoad(cache.data)
                   /\ pc'[i] = "done" =>
                         response'[i].results =
                             search_keywords_in_index(JsonLoad(cache.data),
                                                      keywords'[i])]_vars

\* C19, witnessed: a build of the document failed after it had collected some
\* entries, and a later search found its keyword in the entries saved, fewer
\* than the document's.
SearchedFailedBuild ==
    \E i, j \in Procs :
        /\ i # j
        /\ FailedAndReturned(j)
        /\ pdf_file[j] = PDF_FILE_PATH
        /\ kind[i] = "search" /\ pc[i] = "done" /\ ~built[i]
        /\ response[i].num_results > 0
        /\ Len(cache.data) > 2
        /\ Len(cache.data) < Len(JsonDump(WholeIndex(doc)))

====
